---- MODULE Spec2Model ----
(***************************************************************************)
(* A model of the telegraf output plugins cloudwatch and kafka:            *)
(*   plugins/outputs/cloudwatch/cloudwatch.go                              *)
(*       PartitionDatums, BuildDimensions, BuildMetricDatum,               *)
(*       CloudWatch.Connect / Write / WriteSinglePoint /                   *)
(*       WriteToCloudWatch / Close                                         *)
(*   plugins/outputs/kafka/kafka.go                                        *)
(*       Kafka.Connect / Write / Close                                     *)
(*                                                                         *)
(* Strings the code compares, sorts or joins are sequences of one-char     *)
(* strings, so that sort.Strings and strings.Join are computed.            *)
(***************************************************************************)
EXTENDS Integers, Sequences, FiniteSets, TLC

VARIABLES
    pc,         \* which function or driver the behaviour exercises, and where it is
    pSize,      \* PartitionDatums: argument size
    pDatums,    \* PartitionDatums: argument datums
    pResult,    \* PartitionDatums: outcome
    mTags,      \* BuildDimensions: argument mTags
    dResult,    \* BuildDimensions: outcome
    point,      \* BuildMetricDatum: argument point
    bResult,    \* BuildMetricDatum: outcome
    plugin,     \* the output plugin under test: "cloudwatch" or "kafka"
    svc,        \* CloudWatch.svc
    kafka,      \* the Kafka struct: config fields and producer
    op,         \* the driver method that returned last ("idle": none pending)
    ret,        \* what that method returned (or that it panicked)
    calls,      \* the transport calls that method issued, in order
    args,       \* the metrics that method was given
    everConnected,  \* history: some Connect() returned nil
    closeCalls      \* history: how often producer.Close() was invoked

vars == <<pc, pSize, pDatums, pResult, mTags, dResult, point, bResult,
          plugin, svc, kafka, op, ret, calls, args, everConnected, closeCalls>>

-----------------------------------------------------------------------------
(* Bounds of the model.                                                    *)

\* PartitionDatums is tried on datum sequences of length 0..MaxDatums
MaxDatums == 45
\* ... and on sizes -MaxSize..MaxSize (and on the code's maxDatumsPerCall)
MaxSize == 5
\* BuildDimensions is tried on every subset of the first MaxTags tag names
MaxTags == 12
\* BuildMetricDatum is tried on points of up to MaxFields fields
MaxFields == 2
\* Write is tried on up to MaxMetrics metrics
MaxMetrics == 2
\* producer.Close() invocations that are counted
MaxCloseCalls == 2

-----------------------------------------------------------------------------
(* Go values.                                                              *)

\* a nil pointer, and a nil error
Nil == [nil |-> TRUE]

Min(a, b) == IF a < b THEN a ELSE b

Abs(a) == IF a < 0 THEN -a ELSE a

\* Go's integer quotient truncates toward zero (b # 0)
GoDiv(a, b) ==
    IF (a >= 0) = (b > 0) THEN Abs(a) \div Abs(b) ELSE -(Abs(a) \div Abs(b))

\* Go's remainder has the sign of the dividend (b # 0)
GoMod(a, b) == a - b * GoDiv(a, b)

\* bytes in ascending order, as far as the model's strings use them
Chars == <<"0", "1", "2", "3", "4", "5", "6", "7", "8", "9",
           "H", "_", "a", "b", "c", "d", "e", "f", "g", "h", "i", "j",
           "k", "l", "m", "n", "o", "p", "q", "r", "s", "t", "u", "v",
           "w", "x", "y", "z">>

Ord(c) == CHOOSE i \in DOMAIN Chars : Chars[i] = c

\* s < t for Go strings: bytewise lexical order
RECURSIVE StringLess(_, _)
StringLess(s, t) ==
    IF t = <<>> THEN FALSE
    ELSE IF s = <<>> THEN TRUE
    ELSE IF Head(s) # Head(t) THEN Ord(Head(s)) < Ord(Head(t))
    ELSE StringLess(Tail(s), Tail(t))

\* sort.Strings of the set of keys a map iteration collected
RECURSIVE SortStrings(_)
SortStrings(keys) ==
    IF keys = {} THEN <<>>
    ELSE LET least == CHOOSE k \in keys :
                          \A other \in keys \ {k} : StringLess(k, other)
         IN  <<least>> \o SortStrings(keys \ {least})

-----------------------------------------------------------------------------
(* PartitionDatums                                                         *)

Panic(why) == [outcome |-> "panic", why |-> why, partitions |-> <<>>]

\* a bug: the remainder is forgotten
NumberOfPartitions_NoRemainder(size, len) == GoDiv(len, size)

\* a bug: one partition too many when size divides len
NumberOfPartitions_AlwaysOneMore(size, len) == GoDiv(len, size) + 1

\* numberOfPartitions := len(datums) / size, one more when size does not divide
NumberOfPartitions(size, len) ==
    IF GoMod(len, size) # 0 THEN GoDiv(len, size) + 1 ELSE GoDiv(len, size)

\* the loop of PartitionDatums from index i on; acc holds partitions[0..i-1]
RECURSIVE PartitionLoop(_, _, _, _, _)
PartitionLoop(size, datums, i, n, acc) ==
    IF i >= n THEN [outcome |-> "ok", why |-> "", partitions |-> acc]
    ELSE LET start == size * i
             end0  == size * (i + 1)
             end   == IF end0 > Len(datums) THEN Len(datums) ELSE end0
         IN  IF start < 0 \/ end < start \/ end > Len(datums)
             THEN Panic("slice bounds out of range")
             ELSE PartitionLoop(size, datums, i + 1, n,
                                Append(acc, SubSeq(datums, start + 1, end)))

PartitionDatums(size, datums) ==
    IF size = 0 THEN Panic("integer divide by zero")
    ELSE LET n == NumberOfPartitions(size, Len(datums))
         IN  IF n < 0 THEN Panic("makeslice: len out of range")
             ELSE PartitionLoop(size, datums, 0, n, <<>>)

\* PutMetricData only supports up to 20 data metrics per call
maxDatumsPerCall == 20

-----------------------------------------------------------------------------
(* BuildDimensions                                                         *)

host == <<"h", "o", "s", "t">>

MaxDimensions == 10

Dimension(name, value) == [nil |-> FALSE, Name |-> name, Value |-> value]

\* a bug: the keys are sorted the wrong way round
SortedKeys_Descending(tags) ==
    LET asc == SortStrings({k \in DOMAIN tags : k # host})
    IN  [i \in 1..Len(asc) |-> asc[Len(asc) + 1 - i]]

\* the tag names other than "host", collected from the map and sorted
SortedKeys(tags) == SortStrings({k \in DOMAIN tags : k # host})

\* dimensions[i] = d for a Go index i (0-based); st is [outcome, dimensions]
SetSlot(st, i, d) ==
    IF st.outcome # "ok" THEN st
    ELSE IF i < 0 \/ i >= Len(st.dimensions)
         THEN [outcome |-> "panic", dimensions |-> st.dimensions]
         ELSE [st EXCEPT !.dimensions[i + 1] = d]

\* the loop over the sorted keys, from Go index i on
RECURSIVE FillDimensions(_, _, _, _)
FillDimensions(keys, tags, st, i) ==
    IF keys = <<>> \/ i >= MaxDimensions \/ st.outcome # "ok" THEN st
    ELSE FillDimensions(Tail(keys), tags,
                        SetSlot(st, i, Dimension(Head(keys), tags[Head(keys)])),
                        i + 1)

BuildDimensions(tags) ==
    LET n   == Min(Cardinality(DOMAIN tags), MaxDimensions)
        st0 == [outcome |-> "ok", dimensions |-> [j \in 1..n |-> Nil]]
        st1 == IF host \in DOMAIN tags
               THEN SetSlot(st0, 0, Dimension(host, tags[host]))
               ELSE st0
        i1  == IF host \in DOMAIN tags THEN 1 ELSE 0
    IN  FillDimensions(SortedKeys(tags), tags, st1, i1)

-----------------------------------------------------------------------------
(* BuildMetricDatum                                                        *)

\* a field value: an interface{} holding a value of dynamic type kind
FieldValue(kind, i, b) == [kind |-> kind, i |-> i, b |-> b]

\* the type switch: the float64 of the value, or the default case.
\* A time.Time is held as its Unix seconds in i.
Coerce(v) ==
    IF v.kind \in {"int", "int32", "int64"}
    THEN [supported |-> TRUE, value |-> v.i]
    ELSE IF v.kind = "float64"
    THEN [supported |-> TRUE, value |-> v.i]
    ELSE IF v.kind = "bool"
    THEN [supported |-> TRUE, value |-> IF v.b THEN 1 ELSE 0]
    ELSE IF v.kind = "time.Time"
    THEN [supported |-> TRUE, value |-> v.i]
    ELSE [supported |-> FALSE, value |-> 0]

\* strings.Join([]string{a, b}, sep)
Join2(a, b, sep) == a \o sep \o b

MetricDatum(p, k, value) ==
    [nil        |-> FALSE,
     MetricName |-> Join2(p.name, k, <<"_">>),
     Value      |-> value,
     Dimensions |-> BuildDimensions(p.tags).dimensions,
     Timestamp  |-> p.time]

\* the range loop over point.Fields(), in the order the map iteration takes;
\* datums is the slice (its length shrinks at an unsupported field), i the index
RECURSIVE DatumLoop(_, _, _, _)
DatumLoop(p, order, st, i) ==
    IF order = <<>> \/ st.outcome # "ok" THEN st
    ELSE LET k == Head(order)
             c == Coerce(p.fields[k])
         IN  IF ~c.supported
             THEN IF Len(st.datums) = 0
                  THEN [outcome |-> "panic", datums |-> st.datums]
                  ELSE DatumLoop(p, Tail(order),
                                 [st EXCEPT !.datums =
                                     SubSeq(st.datums, 1, Len(st.datums) - 1)],
                                 i)
             ELSE IF i >= Len(st.datums)
                  THEN [outcome |-> "panic", datums |-> st.datums]
                  ELSE DatumLoop(p, Tail(order),
                                 [st EXCEPT !.datums[i + 1] =
                                     MetricDatum(p, k, c.value)],
                                 i + 1)

\* BuildMetricDatum(point) when the map iteration visits the fields in order
BuildMetricDatum(p, order) ==
    DatumLoop(p, order,
              [outcome |-> "ok",
               datums  |-> [j \in 1..Cardinality(DOMAIN p.fields) |-> Nil]],
              0)

-----------------------------------------------------------------------------
(* Inputs the functions are tried on.                                      *)

\* every sequence over S of length at most n
SeqsUpTo(S, n) == UNION {[1..m -> S] : m \in 0..n}

\* every order in which a map iteration can visit the keys S
Orders(S) ==
    {o \in [1..Cardinality(S) -> S] : \A i, j \in DOMAIN o : o[i] = o[j] => i = j}

PartitionInputs ==
    {[i \in 1..n |-> i] : n \in 0..MaxDatums} \cup SeqsUpTo({1, 2}, 3)

PartitionSizes == (-MaxSize..MaxSize) \cup {maxDatumsPerCall}

TagNameList ==
    << host,
       <<"z", "o", "n", "e">>,
       <<"a", "z">>,
       <<"d", "c">>,
       <<"r", "e", "g", "i", "o", "n">>,
       <<"e", "n", "v">>,
       <<"r", "a", "c", "k">>,
       <<"H", "o", "s", "t">>,
       <<"h", "o", "s">>,
       <<"h", "o", "s", "t", "s">>,
       <<"c", "p", "u">>,
       <<"a", "p", "p">>,
       <<"r", "o", "l", "e">>,
       <<"u", "n", "i", "t">> >>

TagNames == {TagNameList[i] : i \in 1..Min(MaxTags, Len(TagNameList))}

\* tag sets: every subset of the names, with values that differ from key to
\* key and with one value for all
TagMaps ==
    UNION {{[k \in S |-> <<"v">> \o k], [k \in S |-> <<"x">>]} : S \in SUBSET TagNames}

FieldNameList == << <<"u", "s", "a", "g", "e">>, <<"i", "d", "l", "e">>,
                    <<"n">>, <<"a", "t">> >>

FieldNames == {FieldNameList[i] : i \in 1..Min(MaxFields, Len(FieldNameList))}

FieldValues ==
    {FieldValue(k, 5, FALSE) :
        k \in {"int", "int8", "int16", "int32", "int64", "uint", "uint8",
               "uint16", "uint32", "uint64", "float32", "float64"}}
    \cup {FieldValue("int64", -3, FALSE),
          FieldValue("bool", 0, TRUE), FieldValue("bool", 0, FALSE),
          FieldValue("time.Time", 1609459200, FALSE),
          FieldValue("string", 0, FALSE), FieldValue("nil", 0, FALSE),
          FieldValue("map", 0, FALSE)}

Point(name, tags, fields, t) ==
    [name |-> name, tags |-> tags, fields |-> fields, time |-> t]

cpu == <<"c", "p", "u">>

DatumPoints ==
    {Point(cpu, tags, fields, 1609459200) :
        tags \in {<<>>, [k \in {host, <<"a", "z">>} |-> <<"v">> \o k]},
        fields \in UNION {[S -> FieldValues] : S \in SUBSET FieldNames}}

NoResult == [outcome |-> "none"]

-----------------------------------------------------------------------------
(* The functions, each called once on an input.                            *)

DriverIdle ==
    /\ plugin = "none"
    /\ svc = Nil
    /\ kafka = Nil
    /\ op = "idle"
    /\ ret = Nil
    /\ calls = <<>>
    /\ args = <<>>
    /\ everConnected = FALSE
    /\ closeCalls = 0

FunctionsIdle ==
    /\ pSize = 0
    /\ pDatums = <<>>
    /\ pResult = NoResult
    /\ mTags = <<>>
    /\ dResult = NoResult
    /\ point = Nil
    /\ bResult = NoResult

InitFunctions ==
    /\ DriverIdle
    /\ \/ /\ pc = "PartitionDatums"
          /\ pSize \in PartitionSizes
          /\ pDatums \in PartitionInputs
          /\ pResult = NoResult
          /\ mTags = <<>> /\ dResult = NoResult
          /\ point = Nil /\ bResult = NoResult
       \/ /\ pc = "BuildDimensions"
          /\ mTags \in TagMaps
          /\ dResult = NoResult
          /\ pSize = 0 /\ pDatums = <<>> /\ pResult = NoResult
          /\ point = Nil /\ bResult = NoResult
       \/ /\ pc = "BuildMetricDatum"
          /\ point \in DatumPoints
          /\ bResult = NoResult
          /\ pSize = 0 /\ pDatums = <<>> /\ pResult = NoResult
          /\ mTags = <<>> /\ dResult = NoResult

CallPartitionDatums ==
    /\ pc = "PartitionDatums"
    /\ pResult' = PartitionDatums(pSize, pDatums)
    /\ pc' = "PartitionDatums.done"
    /\ UNCHANGED <<pSize, pDatums, mTags, dResult, point, bResult, plugin, svc,
                   kafka, op, ret, calls, args, everConnected, closeCalls>>

CallBuildDimensions ==
    /\ pc = "BuildDimensions"
    /\ dResult' = BuildDimensions(mTags)
    /\ pc' = "BuildDimensions.done"
    /\ UNCHANGED <<pSize, pDatums, pResult, mTags, point, bResult, plugin, svc,
                   kafka, op, ret, calls, args, everConnected, closeCalls>>

CallBuildMetricDatum ==
    /\ pc = "BuildMetricDatum"
    /\ \E order \in Orders(DOMAIN point.fields) :
           bResult' = BuildMetricDatum(point, order)
    /\ pc' = "BuildMetricDatum.done"
    /\ UNCHANGED <<pSize, pDatums, pResult, mTags, dResult, point, plugin, svc,
                   kafka, op, ret, calls, args, everConnected, closeCalls>>

NextFunctions ==
    \/ CallPartitionDatums
    \/ CallBuildDimensions
    \/ CallBuildMetricDatum

SpecFunctions == InitFunctions /\ [][NextFunctions]_vars

-----------------------------------------------------------------------------
(* The transport, and what a driver method returns.                        *)

\* a non-nil error: what failed, and at which transport call of the Write
Err(what, n) == [nil |-> FALSE, panic |-> FALSE, what |-> what, call |-> n]

\* the method did not return: a run-time panic unwinds it
PanicValue(why) == [nil |-> FALSE, panic |-> TRUE, what |-> why, call |-> 0]

IsError(r) == ~r.nil /\ ~r.panic

IsPanic(r) == ~r.nil /\ r.panic

\* the progress of a Write: the transport calls issued so far and its error
Progress(cs, err) == [calls |-> cs, ret |-> err]

\* which transport calls of one Write fail: none, one, or all from one on
TransportCalls == 1..(3 * MaxMetrics)

FailureOracles ==
    {{}} \cup {{k} : k \in TransportCalls}
         \cup {{j \in TransportCalls : j >= k} : k \in TransportCalls}

-----------------------------------------------------------------------------
(* CloudWatch                                                              *)

Session == [nil |-> FALSE]

\* c.svc.PutMetricData(params): one transport call, or a nil dereference
\* when no session was ever installed
WriteToCloudWatch(c, datums, st, fails) ==
    IF c.nil THEN Progress(st.calls, PanicValue("nil pointer dereference"))
    ELSE LET n   == Len(st.calls) + 1
             err == IF n \in fails THEN Err("PutMetricData", n) ELSE Nil
         IN  Progress(Append(st.calls,
                             [data |-> datums, ok |-> err.nil, err |-> err]),
                      err)

\* a bug: the error of a partition does not end the loop
RECURSIVE SendPartitions_KeepsGoing(_, _, _, _)
SendPartitions_KeepsGoing(c, parts, st, fails) ==
    IF parts = <<>> \/ IsPanic(st.ret) THEN st
    ELSE LET st1 == WriteToCloudWatch(c, Head(parts), st, fails)
         IN  SendPartitions_KeepsGoing(c, Tail(parts),
                 Progress(st1.calls, IF st1.ret.nil THEN st.ret ELSE st1.ret),
                 fails)

\* the loop of WriteSinglePoint over the partitions
RECURSIVE SendPartitions(_, _, _, _)
SendPartitions(c, parts, st, fails) ==
    IF parts = <<>> THEN st
    ELSE LET st1 == WriteToCloudWatch(c, Head(parts), st, fails)
         IN  IF ~st1.ret.nil THEN st1
             ELSE SendPartitions(c, Tail(parts), st1, fails)

\* a bug: the datums of a point are sent in one call, however many
PointPartitions_Unsplit(datums) == IF datums = <<>> THEN <<>> ELSE <<datums>>

\* PartitionDatums(maxDatumsPerCall, datums) as WriteSinglePoint calls it
PointPartitions(datums) == PartitionDatums(maxDatumsPerCall, datums).partitions

WriteSinglePoint(c, p, order, st, fails) ==
    SendPartitions(c, PointPartitions(BuildMetricDatum(p, order).datums), st, fails)

\* the loop of Write over the metrics; orders[i] is the order in which the
\* fields of metrics[i] are visited
RECURSIVE CloudWatchWrite(_, _, _, _, _)
CloudWatchWrite(c, metrics, orders, st, fails) ==
    IF metrics = <<>> THEN st
    ELSE LET st1 == WriteSinglePoint(c, Head(metrics), Head(orders), st, fails)
         IN  IF ~st1.ret.nil THEN st1
             ELSE CloudWatchWrite(c, Tail(metrics), Tail(orders), st1, fails)

-----------------------------------------------------------------------------
(* Kafka                                                                   *)

\* p.String(): the metric serialized, opaque to the plugin
MetricString(p) == [serialized |-> p]

\* a bug: the key is always taken from the "host" tag
MessageKey_AlwaysHost(p, routingTag) ==
    IF host \in DOMAIN p.tags
    THEN [nil |-> FALSE, key |-> p.tags[host]]
    ELSE Nil

\* m.Key: the value of the routing tag when the metric has that tag
MessageKey(p, routingTag) ==
    IF routingTag \in DOMAIN p.tags
    THEN [nil |-> FALSE, key |-> p.tags[routingTag]]
    ELSE Nil

ProducerMessage(k, p) ==
    [Topic |-> k.Topic, Value |-> MetricString(p), Key |-> MessageKey(p, k.RoutingTag)]

\* k.producer.SendMessage(m): a nil interface panics; what a producer that
\* was closed does with a message is the library's (closedPanics)
SendMessage(k, m, st, fails, closedPanics) ==
    IF k.producer.nil
    THEN Progress(st.calls, PanicValue("nil pointer dereference"))
    ELSE IF k.producer.closed /\ closedPanics
    THEN Progress(st.calls, PanicValue("send on closed producer"))
    ELSE LET n   == Len(st.calls) + 1
             err == IF n \in fails \/ k.producer.closed
                    THEN Err("SendMessage", n) ELSE Nil
         IN  Progress(Append(st.calls, [data |-> m, ok |-> err.nil, err |-> err]),
                      IF err.nil THEN Nil
                      ELSE [nil |-> FALSE, panic |-> FALSE,
                            what |-> "FAILED to send kafka message", call |-> n,
                            cause |-> err])

RECURSIVE KafkaSendAll(_, _, _, _, _)
KafkaSendAll(k, metrics, st, fails, closedPanics) ==
    IF metrics = <<>> THEN st
    ELSE LET st1 == SendMessage(k, ProducerMessage(k, Head(metrics)), st,
                                fails, closedPanics)
         IN  IF ~st1.ret.nil THEN st1
             ELSE KafkaSendAll(k, Tail(metrics), st1, fails, closedPanics)

KafkaWrite(k, metrics, st, fails, closedPanics) ==
    IF Len(metrics) = 0 THEN st
    ELSE KafkaSendAll(k, metrics, st, fails, closedPanics)

\* the legacy ssl options overwrite the new ones
LegacySSL(k) ==
    IF k.Certificate # ""
    THEN [k EXCEPT !.SSLCert = k.Certificate, !.SSLCA = k.CA, !.SSLKey = k.Key]
    ELSE k

-----------------------------------------------------------------------------
(* The drivers: Connect, Write and Close called one after the other by the *)
(* agent, which takes each result (Return) before it calls again.          *)

dc == <<"d", "c">>

\* "f00", "f01", ...
BigFieldName(i) == <<"f", Chars[(i \div 10) + 1], Chars[(i % 10) + 1]>>

\* two full partitions and one datum more
BigCount == 2 * maxDatumsPerCall + 1

\* BigCount int64 fields and a string field, whose name sorts last
BigFields ==
    [k \in {BigFieldName(i) : i \in 0..BigCount} |->
        IF k = BigFieldName(BigCount) THEN FieldValue("string", 0, FALSE)
        ELSE FieldValue("int64", 7, FALSE)]

WritePoints ==
    { Point(<<"m", "e", "m">>, <<>>, <<>>, 1609459200),
      Point(cpu,
            [k \in {host, <<"r", "e", "g", "i", "o", "n">>, <<"z", "o", "n", "e">>}
                |-> <<"v">> \o k],
            [k \in {<<"u", "s", "a", "g", "e">>, <<"i", "d", "l", "e">>} |->
                IF k = <<"i", "d", "l", "e">> THEN FieldValue("string", 0, FALSE)
                ELSE FieldValue("float64", 42, FALSE)],
            1609459201),
      Point(<<"d", "i", "s", "k">>, [k \in {dc} |-> <<"e", "u">>],
            [k \in {<<"n">>} |-> FieldValue("int64", 5, FALSE)], 1609459202),
      Point(<<"n", "e", "t">>, [k \in {host} |-> <<"s", "r", "v", "1">>],
            BigFields, 1609459203) }

MetricSeqs == SeqsUpTo(WritePoints, MaxMetrics)

Reverse(q) == [i \in 1..Len(q) |-> q[Len(q) + 1 - i]]

\* the names of BigFields in ascending order
BigAscending == [i \in 1..(BigCount + 1) |-> BigFieldName(i - 1)]

\* the iteration orders tried on a map: all of them for a small map, the
\* ascending and the descending one for the large map
WriteOrders(fields) ==
    IF fields = BigFields THEN {BigAscending, Reverse(BigAscending)}
    ELSE Orders(DOMAIN fields)

RECURSIVE OrderChoices(_)
OrderChoices(metrics) ==
    IF metrics = <<>> THEN {<<>>}
    ELSE {<<o>> \o rest : o \in WriteOrders(Head(metrics).fields),
                          rest \in OrderChoices(Tail(metrics))}

\* the legacy ssl options with the routing tags dc and "", the new ones with host
KafkaConfigs ==
    {[Certificate |-> cert, Key |-> IF cert = "" THEN "" ELSE "legacy.key",
      CA |-> IF cert = "" THEN "" ELSE "legacy-ca.pem",
      SSLCert |-> "", SSLKey |-> "", SSLCA |-> "",
      Topic |-> "telegraf", RoutingTag |-> tag, producer |-> Nil] :
        <<cert, tag>> \in {<<"", host>>, <<"legacy.pem", dc>>, <<"legacy.pem", <<>> >>}}

funVars == <<pSize, pDatums, pResult, mTags, dResult, point, bResult>>

InitDrivers ==
    /\ FunctionsIdle
    /\ pc = "driver"
    /\ \/ plugin = "cloudwatch" /\ kafka = Nil
       \/ plugin = "kafka" /\ kafka \in KafkaConfigs
    /\ svc = Nil
    /\ op = "idle"
    /\ ret = Nil
    /\ calls = <<>>
    /\ args = <<>>
    /\ everConnected = FALSE
    /\ closeCalls = 0

Callable(name) == pc = "driver" /\ plugin = name /\ op = "idle"

\* CloudWatch.Connect: the session is built, ListMetrics tests it
CloudWatchConnect ==
    /\ Callable("cloudwatch")
    /\ \E listMetricsFails \in BOOLEAN :
          /\ svc' = Session
          /\ ret' = IF listMetricsFails THEN Err("ListMetrics", 0) ELSE Nil
          /\ everConnected' = (everConnected \/ ~listMetricsFails)
    /\ op' = "Connect"
    /\ UNCHANGED <<pc, funVars, plugin, kafka, calls, args, closeCalls>>

CloudWatchClose ==
    /\ Callable("cloudwatch")
    /\ op' = "Close"
    /\ ret' = Nil
    /\ UNCHANGED <<pc, funVars, plugin, svc, kafka, calls, args, everConnected,
                   closeCalls>>

CloudWatchWriteCall ==
    /\ Callable("cloudwatch")
    /\ \E metrics \in MetricSeqs, fails \in FailureOracles :
         \E orders \in OrderChoices(metrics) :
            \E st \in {CloudWatchWrite(svc, metrics, orders, Progress(<<>>, Nil), fails)} :
                /\ calls' = st.calls
                /\ ret' = st.ret
                /\ args' = metrics
    /\ op' = "Write"
    /\ UNCHANGED <<pc, funVars, plugin, svc, kafka, everConnected, closeCalls>>

\* Kafka.Connect: the TLS config, then the producer; either may fail
KafkaConnect ==
    /\ Callable("kafka")
    /\ \E outcome \in {"tls fails", "producer fails", "ok"} :
          /\ kafka' = IF outcome = "ok"
                      THEN [LegacySSL(kafka) EXCEPT
                                !.producer = [nil |-> FALSE, closed |-> FALSE]]
                      ELSE LegacySSL(kafka)
          /\ ret' = IF outcome = "ok" THEN Nil
                    ELSE IF outcome = "tls fails" THEN Err("GetTLSConfig", 0)
                    ELSE Err("NewSyncProducer", 0)
          /\ everConnected' = (everConnected \/ outcome = "ok")
          /\ closeCalls' = IF outcome = "ok" THEN 0 ELSE closeCalls
    /\ op' = "Connect"
    /\ UNCHANGED <<pc, funVars, plugin, svc, calls, args>>

\* Kafka.Close: return k.producer.Close(); closeCalls counts the calls of
\* Close() on the producer in place
KafkaClose ==
    /\ Callable("kafka")
    /\ IF kafka.producer.nil
       THEN /\ ret' = PanicValue("nil pointer dereference")
            /\ UNCHANGED <<kafka, closeCalls>>
       ELSE /\ closeCalls < MaxCloseCalls
            /\ closeCalls' = closeCalls + 1
            /\ kafka' = [kafka EXCEPT !.producer.closed = TRUE]
            /\ \E outcome \in {"nil", "error", "panic"} :
                  /\ outcome = "panic" => kafka.producer.closed
                  /\ ret' = IF outcome = "nil" THEN Nil
                            ELSE IF outcome = "error" THEN Err("producer.Close", 0)
                            ELSE PanicValue("close of closed producer")
    /\ op' = "Close"
    /\ UNCHANGED <<pc, funVars, plugin, svc, calls, args, everConnected>>

KafkaWriteCall ==
    /\ Callable("kafka")
    /\ \E metrics \in MetricSeqs, fails \in FailureOracles :
         \E closedPanics \in
                IF ~kafka.producer.nil /\ kafka.producer.closed
                THEN BOOLEAN ELSE {FALSE} :
            \E st \in {KafkaWrite(kafka, metrics, Progress(<<>>, Nil), fails,
                                  closedPanics)} :
                /\ calls' = st.calls
                /\ ret' = st.ret
                /\ args' = metrics
    /\ op' = "Write"
    /\ UNCHANGED <<pc, funVars, plugin, svc, kafka, everConnected, closeCalls>>

\* the agent has the result of the call
Return ==
    /\ pc = "driver"
    /\ op # "idle"
    /\ op' = "idle"
    /\ ret' = Nil
    /\ calls' = <<>>
    /\ args' = <<>>
    /\ UNCHANGED <<pc, funVars, plugin, svc, kafka, everConnected, closeCalls>>

NextDrivers ==
    \/ CloudWatchConnect
    \/ CloudWatchWriteCall
    \/ CloudWatchClose
    \/ KafkaConnect
    \/ KafkaWriteCall
    \/ KafkaClose
    \/ Return

SpecDrivers == InitDrivers /\ [][NextDrivers]_vars

-----------------------------------------------------------------------------
(* Claims about the functions, checked under SpecFunctions.                *)

\* the least q with q * d >= n  (n >= 0, d >= 1)
CeilDiv(n, d) == CHOOSE q \in 0..n : q * d >= n /\ (q = 0 \/ (q - 1) * d < n)

RECURSIVE Flatten(_)
Flatten(parts) ==
    IF parts = <<>> THEN <<>> ELSE Head(parts) \o Flatten(Tail(parts))

PartitionReturned == pc = "PartitionDatums.done"

\* C1: for every maxSize >= 1, every part PartitionDatums returns has length
\* <= maxSize, every part but the last has length maxSize, and the parts
\* concatenated in order are the input sequence.
C1_PartitionCoverage ==
    (PartitionReturned /\ pSize >= 1) =>
        LET parts == pResult.partitions
        IN  /\ pResult.outcome = "ok"
            /\ \A i \in DOMAIN parts :
                   /\ Len(parts[i]) <= pSize
                   /\ i < Len(parts) => Len(parts[i]) = pSize
            /\ Flatten(parts) = pDatums

\* 25 datums with maxSize 20: two parts, of 20 and of 5
C1_Witness ==
    /\ PartitionReturned
    /\ pSize = maxDatumsPerCall
    /\ Len(pDatums) = maxDatumsPerCall + 5
    /\ Len(pResult.partitions) = 2
    /\ Len(pResult.partitions[1]) = maxDatumsPerCall
    /\ Len(pResult.partitions[2]) = 5

\* C2: for every maxSize >= 1 the number of parts is ceil(len / maxSize), which
\* is zero for the empty input, and no part is empty.
C2_PartitionCount ==
    (PartitionReturned /\ pSize >= 1) =>
        /\ pResult.outcome = "ok"
        /\ Len(pResult.partitions) = CeilDiv(Len(pDatums), pSize)
        /\ pDatums = <<>> => pResult.partitions = <<>>
        /\ \A i \in DOMAIN pResult.partitions : pResult.partitions[i] # <<>>

\* maxSize divides the length: no part more than the quotient
C2_Witness ==
    /\ PartitionReturned
    /\ pSize = maxDatumsPerCall
    /\ Len(pDatums) = 2 * maxDatumsPerCall
    /\ Len(pResult.partitions) = 2

\* C10 as claimed: with maxSize < 1 the partitioner fails, whatever the input,
\* and produces no partition.
C10_RejectsSizeBelowOne ==
    (PartitionReturned /\ pSize < 1) =>
        /\ pResult.outcome # "ok"
        /\ pResult.partitions = <<>>

DimensionsReturned == pc = "BuildDimensions.done"

DimensionNames(dims) == {dims[i].Name : i \in {j \in DOMAIN dims : ~dims[j].nil}}

\* C3: BuildDimensions returns ("host", T["host"]) first when T has a host
\* tag, then the other tags in ascending lexical order of name, cut to
\* MaxDimensions entries: min(len(T), MaxDimensions) entries, none nil, each a
\* tag of T with its value, and every dropped tag is a non-host name above
\* every kept non-host name.
C3_DimensionSelector ==
    DimensionsReturned =>
        LET out == dResult.dimensions
        IN  /\ dResult.outcome = "ok"
            /\ Len(out) = Min(Cardinality(DOMAIN mTags), MaxDimensions)
            /\ \A i \in DOMAIN out :
                   /\ ~out[i].nil
                   /\ out[i].Name \in DOMAIN mTags
                   /\ out[i].Value = mTags[out[i].Name]
                   /\ i > 1 => out[i].Name # host
            /\ host \in DOMAIN mTags => out[1].Name = host
            /\ \A i, j \in DOMAIN out :
                   (i < j /\ out[i].Name # host) =>
                       StringLess(out[i].Name, out[j].Name)
            /\ \A k \in DOMAIN mTags \ DimensionNames(out) :
                   /\ k # host
                   /\ \A i \in DOMAIN out :
                          out[i].Name # host => StringLess(out[i].Name, k)

\* more tags than MaxDimensions, host among them and not the least name:
\* host is kept in slot 0 and a tag is dropped
C3_Witness ==
    /\ DimensionsReturned
    /\ host \in DOMAIN mTags
    /\ Cardinality(DOMAIN mTags) > MaxDimensions
    /\ Len(dResult.dimensions) = MaxDimensions
    /\ dResult.dimensions[1].Name = host
    /\ StringLess(dResult.dimensions[2].Name, host)
    /\ DOMAIN mTags \ DimensionNames(dResult.dimensions) # {}

DatumsReturned == pc = "BuildMetricDatum.done"

\* the kinds the claim counts as supported: integers of any width, floating
\* point numbers, booleans and timestamps
ClaimedKinds ==
    {"int", "int8", "int16", "int32", "int64", "uint", "uint8", "uint16",
     "uint32", "uint64", "float32", "float64", "bool", "time.Time"}

\* C4 as claimed: BuildMetricDatum returns one Datum for each field that holds
\* an integer of any width, a floating-point number, a boolean or a timestamp,
\* none for any other field, and no nil entry.
C4_OneDatumPerNumericField ==
    DatumsReturned =>
        LET out == bResult.datums
            supported == {k \in DOMAIN point.fields :
                             point.fields[k].kind \in ClaimedKinds}
        IN  /\ bResult.outcome = "ok"
            /\ Len(out) = Cardinality(supported)
            /\ \A i \in DOMAIN out : ~out[i].nil
            /\ \A k \in supported :
                   Cardinality({i \in DOMAIN out :
                       out[i].MetricName = Join2(point.name, k, <<"_">>)}) = 1

-----------------------------------------------------------------------------
(* Claims about the drivers, checked under SpecDrivers.                    *)

WriteReturned(name) == pc = "driver" /\ plugin = name /\ op = "Write"

SupportedFields(p) == {k \in DOMAIN p.fields : Coerce(p.fields[k]).supported}

\* the Datums of one record, in no order
ExpectedDatums(p) ==
    {MetricDatum(p, k, Coerce(p.fields[k]).value) : k \in SupportedFields(p)}

DatumCount(p) == Cardinality(SupportedFields(p))

RECURSIVE TotalDatums(_)
TotalDatums(metrics) ==
    IF metrics = <<>> THEN 0
    ELSE DatumCount(Head(metrics)) + TotalDatums(Tail(metrics))

\* the transport calls of the records one by one
RECURSIVE CallsPerRecord(_)
CallsPerRecord(metrics) ==
    IF metrics = <<>> THEN 0
    ELSE CeilDiv(DatumCount(Head(metrics)), maxDatumsPerCall)
             + CallsPerRecord(Tail(metrics))

Elements(q) == {q[i] : i \in DOMAIN q}

\* C5 as claimed: the Datums of all records of a Write are partitioned as one
\* sequence, so a Write whose transport calls all succeed issues
\* ceil(N / maxDatumsPerCall) of them, N the Datums of all its records.
C5_OnePartitioningPerWrite ==
    (WriteReturned("cloudwatch") /\ ret.nil) =>
        Len(calls) = CeilDiv(TotalDatums(args), maxDatumsPerCall)

\* C5 amended: the Datums of each record are partitioned on their own, and one
\* transport call is issued per partition, record after record; a Write whose
\* transport calls all succeed issues the sum over its records r of
\* ceil(N_r / maxDatumsPerCall) calls, and the calls of record r carry its
\* Datums, maxDatumsPerCall in each but the last.
C5_OnePartitioningPerRecord ==
    (WriteReturned("cloudwatch") /\ ret.nil) =>
        /\ Len(calls) = CallsPerRecord(args)
        /\ \A r \in DOMAIN args :
               LET n     == DatumCount(args[r])
                   cnt   == CeilDiv(n, maxDatumsPerCall)
                   off   == CallsPerRecord(SubSeq(args, 1, r - 1))
                   group == SubSeq(calls, off + 1, off + cnt)
               IN  /\ \A j \in 1..cnt :
                          /\ group[j].ok
                          /\ Len(group[j].data) =
                                 IF j < cnt THEN maxDatumsPerCall
                                 ELSE n - maxDatumsPerCall * (cnt - 1)
                   /\ Elements(Flatten([j \in 1..cnt |-> group[j].data]))
                          = ExpectedDatums(args[r])

\* two records, one of them of three partitions: four calls
C5_Witness ==
    /\ WriteReturned("cloudwatch")
    /\ ret.nil
    /\ Len(args) = 2
    /\ DatumCount(args[1]) = 1
    /\ DatumCount(args[2]) = BigCount
    /\ Len(calls) = 4

\* C6: in a Write the first transport call that fails is the last call of the
\* Write (no call for the partitions and records left, no second try), its
\* error is what Write returns, and the calls before it succeeded and stay in
\* the transport's record.
C6_FirstFailureEndsWrite ==
    (pc = "driver" /\ op = "Write") =>
        /\ \A i \in DOMAIN calls :
               ~calls[i].ok =>
                   /\ i = Len(calls)
                   /\ IsError(ret)
                   /\ IF plugin = "kafka" THEN ret.cause = calls[i].err
                      ELSE ret = calls[i].err
        /\ IsError(ret) => (calls # <<>> /\ ~calls[Len(calls)].ok)
        /\ ret.nil => \A i \in DOMAIN calls : calls[i].ok

\* the second partition of the first record fails: its third partition and
\* the second record are not sent
C6_Witness ==
    /\ WriteReturned("cloudwatch")
    /\ Len(args) = 2
    /\ DatumCount(args[1]) = BigCount
    /\ DatumCount(args[2]) = 1
    /\ Len(calls) = 2
    /\ calls[1].ok
    /\ ~calls[2].ok
    /\ ret = calls[2].err

SessionInstalled ==
    \/ plugin = "cloudwatch" /\ ~svc.nil
    \/ plugin = "kafka" /\ ~kafka.producer.nil

\* C7 as claimed: a Connect() that fails installs no session, so a driver has
\* a session only once a Connect() has succeeded, and a Write before that
\* issues no transport call.
C7_FailedConnectLeavesDisconnected ==
    pc = "driver" =>
        /\ SessionInstalled => everConnected
        /\ (op = "Write" /\ ~everConnected) => calls = <<>>

\* C8 as claimed: Close() completes without failure in every state of the
\* driver, and the transport is released at most once.
C8_CloseIdempotent ==
    (pc = "driver" /\ op = "Close") => (ret.nil /\ closeCalls <= 1)

\* C9: a Kafka Write whose sends all succeed issues one send per record, in
\* record order, keyed by the value of the record's routing tag when the
\* record has that tag and without key when it has not.
C9_RoutingMode ==
    (WriteReturned("kafka") /\ ret.nil) =>
        /\ Len(calls) = Len(args)
        /\ \A i \in DOMAIN calls :
               LET m == calls[i].data
                   t == args[i].tags
               IN  /\ calls[i].ok
                   /\ m.Topic = kafka.Topic
                   /\ m.Value = MetricString(args[i])
                   /\ kafka.RoutingTag \in DOMAIN t =>
                          (~m.Key.nil /\ m.Key.key = t[kafka.RoutingTag])
                   /\ kafka.RoutingTag \notin DOMAIN t => m.Key.nil

\* routing by host: a record with the tag is keyed, one without is not
C9_Witness ==
    /\ WriteReturned("kafka")
    /\ ret.nil
    /\ kafka.RoutingTag = host
    /\ Len(args) = 2
    /\ Len(calls) = 2
    /\ ~calls[1].data.Key.nil
    /\ calls[1].data.Key.key = <<"s", "r", "v", "1">>
    /\ calls[2].data.Key.nil

====
